---- MODULE Spec2Model ----
(***************************************************************************)
(* A model of llm_utils.py: the BufferedStreamingHandler token buffer and  *)
(* the model registry (fetch_lmstudio_models, get_model_choices,           *)
(* resolve_model_config).                                                  *)
(*                                                                         *)
(* A Python str is a sequence of one-character strings, so that strip(),   *)
(* lower(), rstrip("/") and the ordering of sorted() are computed as       *)
(* Python computes them.  A Python value whose type matters (a JSON value, *)
(* the configured base URL) is a record tagged with its type in field py.  *)
(***************************************************************************)
EXTENDS Integers, Sequences, FiniteSets, TLC

VARIABLES
  LMSTUDIO_BASE_URL,  \* config.LMSTUDIO_BASE_URL: None or a str
  server,             \* what GET <base>/models meets right now
  result,             \* the last registry call and what it did
  buffer,             \* BufferedStreamingHandler.buffer
  buffer_limit,       \* BufferedStreamingHandler.buffer_limit
  ui_callback,        \* whether a ui_callback was supplied
  stream,             \* the tokens the LLM run delivers, in order
  pos,                \* how many of them on_llm_new_token has received
  ended,              \* whether on_llm_end has been called
  primary,            \* the strings print() wrote, in order
  secondary           \* the strings ui_callback received, in order

vars == <<LMSTUDIO_BASE_URL, server, result, buffer, buffer_limit, ui_callback,
          stream, pos, ended, primary, secondary>>

registryVars == <<LMSTUDIO_BASE_URL, server, result>>

bufferVars == <<buffer, buffer_limit, ui_callback, stream, pos, ended, primary, secondary>>

-----------------------------------------------------------------------------
(* Bounds of the model *)

\* the most entries the data array of a discovery response holds
MaxModels == 2

\* the most tokens of an enumerated stream
MaxTokens == 3

\* the largest enumerated buffer_limit besides the default
MaxLimit == 3

\* buffer_limit's default, and the limit of the shared handler
DefaultLimit == 60

-----------------------------------------------------------------------------
(* Python str *)

\* the characters of code points 32 .. 126, in code point order (the grave
\* accent, which a TLA+ string cannot hold, by its name)
Printable == <<" ", "!", "\"", "#", "$", "%", "&", "'", "(", ")", "*", "+", ",", "-", ".", "/", "0", "1", "2", "3", "4", "5", "6", "7", "8", "9", ":", ";", "<", "=", ">", "?", "@", "A", "B", "C", "D", "E", "F", "G", "H", "I", "J", "K", "L", "M", "N", "O", "P", "Q", "R", "S", "T", "U", "V", "W", "X", "Y", "Z", "[", "\\", "]", "^", "_", "U+0060", "a", "b", "c", "d", "e", "f", "g", "h", "i", "j", "k", "l", "m", "n", "o", "p", "q", "r", "s", "t", "u", "v", "w", "x", "y", "z", "{", "|", "}", "~">>

\* ord(c), for every character of the model
CodePointOf ==
  [c \in {Printable[i] : i \in 1..Len(Printable)} \cup {"\t", "\n", "\f", "\r"} |->
     IF c = "\t" THEN 9
     ELSE IF c = "\n" THEN 10
     ELSE IF c = "\f" THEN 12
     ELSE IF c = "\r" THEN 13
     ELSE 31 + (CHOOSE i \in 1..Len(Printable) : Printable[i] = c)]

\* ord(c)
CodePoint(c) == CodePointOf[c]

\* the characters str.strip() removes
Whitespace == {" ", "\t", "\n", "\f", "\r"}

\* c.lower()
LowerChar(c) ==
  LET n == CodePoint(c)
  IN  IF n >= 65 /\ n <= 90 THEN Printable[n + 32 - 31] ELSE c

\* c.upper()
UpperChar(c) ==
  LET n == CodePoint(c)
  IN  IF n >= 97 /\ n <= 122 THEN Printable[n - 32 - 31] ELSE c

\* s.lower()
Lower(s) == [i \in 1..Len(s) |-> LowerChar(s[i])]

\* s.upper()
Upper(s) == [i \in 1..Len(s) |-> UpperChar(s[i])]

RECURSIVE LStrip(_, _)
\* s.lstrip(chars)
LStrip(s, chars) ==
  IF s # <<>> /\ Head(s) \in chars THEN LStrip(Tail(s), chars) ELSE s

RECURSIVE RStrip(_, _)
\* s.rstrip(chars)
RStrip(s, chars) ==
  IF s # <<>> /\ s[Len(s)] \in chars THEN RStrip(SubSeq(s, 1, Len(s) - 1), chars) ELSE s

\* s.strip()
Strip(s) == RStrip(LStrip(s, Whitespace), Whitespace)

RECURSIVE StrLess(_, _)
\* a < b on str: lexicographic by code point
StrLess(a, b) ==
  IF b = <<>> THEN FALSE
  ELSE IF a = <<>> THEN TRUE
  ELSE IF Head(a) = Head(b) THEN StrLess(Tail(a), Tail(b))
  ELSE CodePoint(Head(a)) < CodePoint(Head(b))

\* "\n" in s
HasNewline(s) == \E i \in 1..Len(s) : s[i] = "\n"

RECURSIVE Concat(_)
\* "".join(ss)
Concat(ss) == IF ss = <<>> THEN <<>> ELSE Head(ss) \o Concat(Tail(ss))

-----------------------------------------------------------------------------
(* Python values *)

PyNone == [py |-> "None"]

PyStr(s) == [py |-> "str", s |-> s]

PyInt(n) == [py |-> "int", n |-> n]

PyList(xs) == [py |-> "list", items |-> xs]

\* a dict as the sequence of its <<key, value>> items, in insertion order
PyDict(kvs) == [py |-> "dict", items |-> kvs]

\* bool(v)
Truthy(v) ==
  CASE v.py = "None" -> FALSE
    [] v.py = "str"  -> v.s # <<>>
    [] v.py = "int"  -> v.n # 0
    [] v.py = "list" -> v.items # <<>>
    [] v.py = "dict" -> v.items # <<>>

\* a call that returned v
Ok(v) == [raised |-> "", val |-> v]

\* a call that raised exception e
Raise(e) == [raised |-> e]

\* d.get(key, default) on a dict d
DictGet(d, key, default) ==
  IF \E i \in 1..Len(d.items) : d.items[i][1] = key
  THEN d.items[CHOOSE i \in 1..Len(d.items) : d.items[i][1] = key][2]
  ELSE default

\* v.get(key, default): only a dict has the attribute get
Get(v, key, default) ==
  IF v.py = "dict" THEN Ok(DictGet(v, key, default)) ELSE Raise("AttributeError")

\* the values that for m in v yields
Iterate(v) ==
  CASE v.py = "list" -> Ok(v.items)
    [] v.py = "dict" -> Ok([i \in 1..Len(v.items) |-> PyStr(v.items[i][1])])
    [] v.py = "str"  -> Ok([i \in 1..Len(v.s) |-> PyStr(<<v.s[i]>>)])
    [] OTHER         -> Raise("TypeError")

-----------------------------------------------------------------------------
(* The static catalog *)

\* the str "lm-studio"
LmStudioKey == PyStr(<<"l", "m", "-", "s", "t", "u", "d", "i", "o">>)

\* the keys of _llm_config_map, in declaration order
llm_config_keys ==
  << PyStr(<<"g", "p", "t", "-", "4", ".", "1">>),
     PyStr(<<"g", "p", "t", "-", "5", ".", "1">>),
     PyStr(<<"g", "p", "t", "-", "5", "-", "m", "i", "n", "i">>),
     PyStr(<<"g", "p", "t", "-", "5", "-", "n", "a", "n", "o">>),
     PyStr(<<"c", "l", "a", "u", "d", "e", "-", "s", "o", "n", "n", "e", "t", "-", "4", "-", "5">>),
     PyStr(<<"c", "l", "a", "u", "d", "e", "-", "s", "o", "n", "n", "e", "t", "-", "4", "-", "0">>),
     PyStr(<<"g", "e", "m", "i", "n", "i", "-", "2", ".", "5", "-", "f", "l", "a", "s", "h">>),
     PyStr(<<"g", "e", "m", "i", "n", "i", "-", "2", ".", "5", "-", "f", "l", "a", "s", "h", "-", "l", "i", "t", "e">>),
     PyStr(<<"g", "e", "m", "i", "n", "i", "-", "2", ".", "5", "-", "p", "r", "o">>),
     PyStr(<<"h", "u", "i", "h", "u", "i", "-", "q", "w", "e", "n", "3", "-", "v", "l", "-", "8", "b", "-", "i", "n", "s", "t", "r", "u", "c", "t", "-", "a", "b", "l", "i", "t", "e", "r", "a", "t", "e", "d">>) >>

\* the values of _llm_config_map, in declaration order; every one is a
\* non-empty dict
llm_config_values ==
  << [class |-> "ChatOpenAI", constructor_params |-> [model_name |-> PyStr(<<"g", "p", "t", "-", "4", ".", "1">>)]],
     [class |-> "ChatOpenAI", constructor_params |-> [model_name |-> PyStr(<<"g", "p", "t", "-", "5", ".", "1">>)]],
     [class |-> "ChatOpenAI", constructor_params |-> [model_name |-> PyStr(<<"g", "p", "t", "-", "5", "-", "m", "i", "n", "i">>)]],
     [class |-> "ChatOpenAI", constructor_params |-> [model_name |-> PyStr(<<"g", "p", "t", "-", "5", "-", "n", "a", "n", "o">>)]],
     [class |-> "ChatAnthropic", constructor_params |-> [model |-> PyStr(<<"c", "l", "a", "u", "d", "e", "-", "s", "o", "n", "n", "e", "t", "-", "4", "-", "5">>)]],
     [class |-> "ChatAnthropic", constructor_params |-> [model |-> PyStr(<<"c", "l", "a", "u", "d", "e", "-", "s", "o", "n", "n", "e", "t", "-", "4", "-", "0">>)]],
     [class |-> "ChatGoogleGenerativeAI", constructor_params |-> [model |-> PyStr(<<"g", "e", "m", "i", "n", "i", "-", "2", ".", "5", "-", "f", "l", "a", "s", "h">>)]],
     [class |-> "ChatGoogleGenerativeAI", constructor_params |-> [model |-> PyStr(<<"g", "e", "m", "i", "n", "i", "-", "2", ".", "5", "-", "f", "l", "a", "s", "h", "-", "l", "i", "t", "e">>)]],
     [class |-> "ChatGoogleGenerativeAI", constructor_params |-> [model |-> PyStr(<<"g", "e", "m", "i", "n", "i", "-", "2", ".", "5", "-", "p", "r", "o">>)]],
     [class |-> "ChatOpenAI",
      constructor_params |-> [model |-> PyStr(<<"h", "u", "i", "h", "u", "i", "-", "q", "w", "e", "n", "3", "-", "v", "l", "-", "8", "b", "-", "i", "n", "s", "t", "r", "u", "c", "t", "-", "a", "b", "l", "i", "t", "e", "r", "a", "t", "e", "d">>),
      base_url |-> LMSTUDIO_BASE_URL,
      api_key |-> LmStudioKey]] >>

\* _llm_config_map as the sequence of its <<key, config>> items
llm_config_map ==
  [i \in 1..Len(llm_config_keys) |-> <<llm_config_keys[i], llm_config_values[i]>>]

\* list(_llm_config_map.keys())
base_models == llm_config_keys

\* normalize_model_name with lower() left out: name.strip()
normalize_without_lower(name) ==
  IF name.py = "str" THEN Ok(PyStr(Strip(name.s))) ELSE Raise("AttributeError")

\* name.strip().lower(); only a str has the attribute strip
normalize_model_name(name) ==
  IF name.py = "str" THEN Ok(PyStr(Lower(Strip(name.s)))) ELSE Raise("AttributeError")

-----------------------------------------------------------------------------
(* Discovery *)

\* _get_lmstudio_base_url with rstrip("/") left out
get_lmstudio_base_url_unstripped ==
  IF ~Truthy(LMSTUDIO_BASE_URL) THEN PyNone ELSE LMSTUDIO_BASE_URL

\* _get_lmstudio_base_url()
get_lmstudio_base_url ==
  IF ~Truthy(LMSTUDIO_BASE_URL) THEN PyNone
  ELSE PyStr(RStrip(LMSTUDIO_BASE_URL.s, {"/"}))

\* requests.get(...), resp.raise_for_status() and resp.json(): the decoded
\* body, or the exception one of the three raises
ResponseJson ==
  IF server.kind = "unreachable" THEN Raise("RequestException")
  ELSE IF server.status >= 400 /\ server.status < 600 THEN Raise("RequestException")
  ELSE server.json

RECURSIVE CollectIds(_, _)
\* the loop over data: append every truthy m.get("id")
CollectIds(data, available) ==
  IF data = <<>> THEN Ok(PyList(available))
  ELSE LET model_id == Get(Head(data), "id", PyNone)
       IN  IF model_id.raised # "" THEN model_id
           ELSE CollectIds(Tail(data),
                           IF Truthy(model_id.val) THEN Append(available, model_id.val)
                           ELSE available)

\* the body of the try block
FetchTry ==
  LET body == ResponseJson
  IN  IF body.raised # "" THEN body
      ELSE LET data == Get(body.val, "data", PyList(<<>>))
           IN  IF data.raised # "" THEN data
               ELSE LET ms == Iterate(data.val)
                    IN  IF ms.raised # "" THEN ms ELSE CollectIds(ms.val, <<>>)

\* the exceptions the except clause catches
FetchCaught == {"RequestException", "ValueError"}

\* fetch_lmstudio_models(): what it returns or raises, and in gets the number
\* of requests.get calls it made
fetch_lmstudio_models ==
  IF ~Truthy(get_lmstudio_base_url)
  THEN [raised |-> "", val |-> PyList(<<>>), gets |-> 0]
  ELSE LET r == FetchTry
       IN  IF r.raised = "" THEN [raised |-> "", val |-> r.val, gets |-> 1]
           ELSE IF r.raised \in FetchCaught THEN [raised |-> "", val |-> PyList(<<>>), gets |-> 1]
           ELSE [raised |-> r.raised, gets |-> 1]

-----------------------------------------------------------------------------
(* get_model_choices *)

\* key in normalized, for the dict normalized kept as <<key, name>> items
InDict(normalized, key) == \E i \in 1..Len(normalized) : normalized[i][1] = key

\* MergeOne without the test key not in normalized: the later name replaces
\* the earlier one under its key
MergeOneOverwrite(normalized, key, dm) ==
  IF InDict(normalized, key)
  THEN [i \in 1..Len(normalized) |->
          IF normalized[i][1] = key THEN <<key, dm>> ELSE normalized[i]]
  ELSE Append(normalized, <<key, dm>>)

\* what the loop does with one dynamic model whose normalized name is key
MergeOne(normalized, key, dm) ==
  IF ~InDict(normalized, key) THEN Append(normalized, <<key, dm>>) ELSE normalized

RECURSIVE MergeDynamic(_, _)
\* for dm in dynamic_models: ... normalized[key] = dm
MergeDynamic(normalized, dynamic_models) ==
  IF dynamic_models = <<>> THEN Ok(normalized)
  ELSE LET dm  == Head(dynamic_models)
           key == normalize_model_name(dm)
       IN  IF key.raised # "" THEN key
           ELSE MergeDynamic(MergeOne(normalized, key.val, dm), Tail(dynamic_models))

\* x in xs, for a list xs
InList(xs, x) == \E i \in 1..Len(xs) : xs[i] = x

\* InsertByKey with the key left out: sorted(names)
InsertByName(xs, x) ==
  LET later == {i \in 1..Len(xs) : StrLess(x.s, xs[i].s)}
      at == IF later = {} THEN Len(xs) + 1
            ELSE CHOOSE i \in later : \A j \in later : i <= j
  IN  SubSeq(xs, 1, at - 1) \o <<x>> \o SubSeq(xs, at, Len(xs))

\* the place sorted() gives x among the already sorted xs: before the first
\* element whose key is greater than x's (the sort is stable)
InsertByKey(xs, x) ==
  LET k == normalize_model_name(x).val.s
      later == {i \in 1..Len(xs) : StrLess(k, normalize_model_name(xs[i]).val.s)}
      at == IF later = {} THEN Len(xs) + 1
            ELSE CHOOSE i \in later : \A j \in later : i <= j
  IN  SubSeq(xs, 1, at - 1) \o <<x>> \o SubSeq(xs, at, Len(xs))

RECURSIVE SortedFrom(_, _)
\* the names of todo put one by one, in their order, into the sorted done
SortedFrom(done, todo) ==
  IF todo = <<>> THEN done ELSE SortedFrom(InsertByKey(done, Head(todo)), Tail(todo))

\* sorted(names, key=_normalize_model_name)
SortedByNormalizedName(names) == SortedFrom(<<>>, names)

RECURSIVE DynamicNames(_)
\* [name for key, name in normalized.items() if name not in base_models]
DynamicNames(items) ==
  IF items = <<>> THEN <<>>
  ELSE IF InList(base_models, Head(items)[2]) THEN DynamicNames(Tail(items))
  ELSE <<Head(items)[2]>> \o DynamicNames(Tail(items))

\* get_model_choices(): what it returns or raises, and the requests it made
get_model_choices ==
  LET dynamic_models == fetch_lmstudio_models
      normalized == [i \in 1..Len(base_models) |->
                       <<normalize_model_name(base_models[i]).val, base_models[i]>>]
  IN  IF dynamic_models.raised # "" THEN dynamic_models
      ELSE LET merged == MergeDynamic(normalized, dynamic_models.val.items)
           IN  IF merged.raised # ""
               THEN [raised |-> merged.raised, gets |-> dynamic_models.gets]
               ELSE [raised |-> "",
                     val |-> PyList(base_models
                                    \o SortedByNormalizedName(DynamicNames(merged.val))),
                     gets |-> dynamic_models.gets]

-----------------------------------------------------------------------------
(* resolve_model_config *)

\* the descriptor built for a LM Studio model
LmStudioConfig(lmstudio_model) ==
  [class |-> "ChatOpenAI",
   constructor_params |-> [model |-> lmstudio_model,
                           base_url |-> LMSTUDIO_BASE_URL,
                           api_key |-> LmStudioKey]]

RECURSIVE FindLmStudio(_, _)
\* for lmstudio_model in ...: the first whose normalized name is the choice's
FindLmStudio(models, model_choice_lower) ==
  IF models = <<>> THEN Ok(PyNone)
  ELSE LET key == normalize_model_name(Head(models))
       IN  IF key.raised # "" THEN key
           ELSE IF key.val = model_choice_lower THEN Ok(LmStudioConfig(Head(models)))
           ELSE FindLmStudio(Tail(models), model_choice_lower)

\* _llm_config_map.get(key)
StaticConfig(key) ==
  IF \E i \in 1..Len(llm_config_map) : llm_config_map[i][1] = key
  THEN llm_config_map[CHOOSE i \in 1..Len(llm_config_map) : llm_config_map[i][1] = key][2]
  ELSE PyNone

\* resolve_model_config(model_choice), for a str model_choice
resolve_model_config(model_choice) ==
  LET model_choice_lower == normalize_model_name(model_choice).val
      config == StaticConfig(model_choice_lower)
  IN  IF config # PyNone THEN [raised |-> "", val |-> config, gets |-> 0]
      ELSE LET dynamic_models == fetch_lmstudio_models
           IN  IF dynamic_models.raised # "" THEN dynamic_models
               ELSE LET found == FindLmStudio(dynamic_models.val.items, model_choice_lower)
                    IN  IF found.raised # ""
                        THEN [raised |-> found.raised, gets |-> dynamic_models.gets]
                        ELSE [raised |-> "", val |-> found.val, gets |-> dynamic_models.gets]

-----------------------------------------------------------------------------
(* The registry's environment: the configuration and the local server *)

\* the values config.LMSTUDIO_BASE_URL takes: unset, empty, slashes only, a URL
BaseUrls ==
  {PyNone, PyStr(<<>>), PyStr(<<"/">>), PyStr(<<"h", "t", "t", "p", ":", "/", "/", "l", "o", "c", "a", "l", "h", "o", "s", "t", ":", "1", "2", "3", "4", "/", "v", "1", "/">>)}

\* a response with a status code and what resp.json() gives or raises
Response(status, json) == [kind |-> "response", status |-> status, json |-> json]

\* a 200 response whose body is {"data": data}
DataResponse(data) == Response(200, Ok(PyDict(<< <<"data", data>> >>)))

\* the identifiers the local server may list
DiscoverableNames ==
  {<<"f", "o", "o", "-", "m", "o", "d", "e", "l">>, <<" ", "F", "o", "o", "-", "M", "o", "d", "e", "l">>, <<"Z", "e", "d">>, <<"b", "a", "r">>, <<"G", "P", "T", "-", "4", ".", "1">>}

\* an entry {"id": id} of the data array
ModelObject(id) == PyDict(<< <<"id", id>> >>)

\* the entries a data array may hold: objects with a str id, with an id of
\* another JSON type, with a null id, without id, and an entry that is no object
Entries ==
  {ModelObject(PyStr(n)) : n \in DiscoverableNames}
    \cup {ModelObject(PyInt(5)), ModelObject(PyNone), PyDict(<<>>), PyStr(<<"x">>)}

\* the outcomes of the request other than a 200 response with a data array:
\* no connection or a timeout, a 500, a body that is not JSON, a top level that
\* is no object, an object without data, and a data that is no array
Faults ==
  {[kind |-> "unreachable"],
   Response(500, Raise("ValueError")),
   Response(200, Raise("ValueError")),
   Response(200, Ok(PyList(<<>>))),
   Response(200, Ok(PyNone)),
   Response(200, Ok(PyDict(<<>>))),
   DataResponse(PyNone),
   DataResponse(PyInt(1)),
   DataResponse(PyStr(<<>>)),
   DataResponse(PyStr(<<"x">>)),
   DataResponse(PyDict(<<>>)),
   DataResponse(PyDict(<< <<"k", PyNone>> >>))}

\* whether the server answers 200 with a data array
Serving ==
  /\ server.kind = "response"
  /\ server.status = 200
  /\ server.json.raised = ""
  /\ server.json.val.py = "dict"
  /\ DictGet(server.json.val, "data", PyNone).py = "list"

\* the data array of a serving server
Loaded == DictGet(server.json.val, "data", PyNone).items

\* the model_choice arguments of resolve_model_config: every static key, as
\* it is, in upper case and between blanks, and names of local models
Choices ==
  UNION {{base_models[i],
          PyStr(Upper(base_models[i].s)),
          PyStr(<<" ">> \o base_models[i].s \o <<" ">>)} : i \in 1..Len(base_models)}
    \cup {PyStr(<<"f", "o", "o", "-", "m", "o", "d", "e", "l">>), PyStr(<<"F", "O", "O", "-", "M", "O", "D", "E", "L">>), PyStr(<<"Z", "e", "d">>), PyStr(<<" ", "B", "A", "R">>),
          PyStr(<<"n", "o", "n", "e", "x", "i", "s", "t", "e", "n", "t", "-", "x", "y", "z">>)}

\* no returned value is in the caller's hands
NoCall == [call |-> "none"]

-----------------------------------------------------------------------------
(* The registry's steps *)

\* between two calls, the local server stops, breaks, or starts with no model
\* loaded
ServerBecomes(outcome) ==
  /\ result = NoCall
  /\ outcome # server
  /\ server' = outcome
  /\ result' = NoCall
  /\ UNCHANGED <<LMSTUDIO_BASE_URL, bufferVars>>

\* between two calls, the local server lists one more entry
LoadModel(entry) ==
  /\ result = NoCall
  /\ Serving
  /\ Len(Loaded) < MaxModels
  /\ server' = DataResponse(PyList(Append(Loaded, entry)))
  /\ result' = NoCall
  /\ UNCHANGED <<LMSTUDIO_BASE_URL, bufferVars>>

\* between two calls, the local server drops its i-th entry
UnloadModel(i) ==
  /\ result = NoCall
  /\ Serving
  /\ i \in 1..Len(Loaded)
  /\ server' = DataResponse(PyList(SubSeq(Loaded, 1, i - 1) \o SubSeq(Loaded, i + 1, Len(Loaded))))
  /\ result' = NoCall
  /\ UNCHANGED <<LMSTUDIO_BASE_URL, bufferVars>>

\* a call of fetch_lmstudio_models()
CallFetch ==
  /\ result = NoCall
  /\ result' = [call |-> "fetch_lmstudio_models", out |-> fetch_lmstudio_models]
  /\ UNCHANGED <<LMSTUDIO_BASE_URL, server, bufferVars>>

\* a call of get_model_choices()
CallGetModelChoices ==
  /\ result = NoCall
  /\ result' = [call |-> "get_model_choices", out |-> get_model_choices]
  /\ UNCHANGED <<LMSTUDIO_BASE_URL, server, bufferVars>>

\* a call of resolve_model_config(model_choice)
CallResolve(model_choice) ==
  /\ result = NoCall
  /\ result' = [call |-> "resolve_model_config", arg |-> model_choice,
                out |-> resolve_model_config(model_choice)]
  /\ UNCHANGED <<LMSTUDIO_BASE_URL, server, bufferVars>>

\* the caller has used what the call returned or raised; the module is
\* single-threaded and synchronous, so the server is next seen by the next call
Return ==
  /\ result # NoCall
  /\ result' = NoCall
  /\ UNCHANGED <<LMSTUDIO_BASE_URL, server, bufferVars>>

-----------------------------------------------------------------------------
(* The token buffer *)

\* the tokens an enumerated stream is made of
Tokens == {<<>>, <<"a">>, <<"b">>, <<"\n">>, <<"a", "b">>, <<"b", "\n", "a">>}

\* the stream of 61 one-character tokens
LongStream == [i \in 1..(DefaultLimit + 1) |-> <<"a">>]

\* the streams fed to the handler
Streams == UNION {[1..n -> Tokens] : n \in 0..MaxTokens} \cup {LongStream}

\* the values of buffer_limit
Limits == 1..MaxLimit \cup {DefaultLimit}

\* FlushNeeded with > for >=
FlushNeededAbove(token, buf, limit) == HasNewline(token) \/ Len(buf) > limit

\* the condition under which on_llm_new_token flushes, buf being the buffer
\* with the token appended
FlushNeeded(token, buf, limit) == HasNewline(token) \/ Len(buf) >= limit

\* Flush without the final self.buffer = ""
FlushWithoutClear(buf) ==
  /\ primary' = Append(primary, buf)
  /\ secondary' = IF ui_callback THEN Append(secondary, buf) ELSE secondary
  /\ buffer' = buf

\* print(self.buffer, end="", flush=True); if self.ui_callback: ...;
\* self.buffer = ""
Flush(buf) ==
  /\ primary' = Append(primary, buf)
  /\ secondary' = IF ui_callback THEN Append(secondary, buf) ELSE secondary
  /\ buffer' = <<>>

\* on_llm_new_token(token), for the next token of the stream
on_llm_new_token ==
  /\ ~ended
  /\ pos < Len(stream)
  /\ LET token == stream[pos + 1]
         buf   == buffer \o token
     IN  IF FlushNeeded(token, buf, buffer_limit) THEN Flush(buf)
         ELSE /\ buffer' = buf
              /\ UNCHANGED <<primary, secondary>>
  /\ pos' = pos + 1
  /\ UNCHANGED <<buffer_limit, ui_callback, stream, ended, registryVars>>

\* whether on_llm_end has anything to flush
EndFlushNeeded(buf) == buf # <<>>

\* on_llm_end(response), once the stream is exhausted
on_llm_end ==
  /\ ~ended
  /\ pos = Len(stream)
  /\ IF EndFlushNeeded(buffer) THEN Flush(buffer)
     ELSE UNCHANGED <<buffer, primary, secondary>>
  /\ ended' = TRUE
  /\ UNCHANGED <<buffer_limit, ui_callback, stream, pos, registryVars>>

-----------------------------------------------------------------------------
(* Specifications *)

\* the handler as __init__ leaves it, before any stream
HandlerConstructed ==
  /\ buffer = <<>>
  /\ pos = 0
  /\ ended = FALSE
  /\ primary = <<>>
  /\ secondary = <<>>

\* the registry with the module imported: the shared handler of
\* _common_callbacks is constructed, the local server is not running
Init ==
  /\ LMSTUDIO_BASE_URL \in BaseUrls
  /\ server = [kind |-> "unreachable"]
  /\ result = NoCall
  /\ HandlerConstructed
  /\ buffer_limit = DefaultLimit
  /\ ui_callback = FALSE
  /\ stream = <<>>

Next ==
  \/ \E outcome \in Faults \cup {DataResponse(PyList(<<>>))} : ServerBecomes(outcome)
  \/ \E entry \in Entries : LoadModel(entry)
  \/ \E i \in 1..MaxModels : UnloadModel(i)
  \/ CallFetch
  \/ CallGetModelChoices
  \/ \E model_choice \in Choices : CallResolve(model_choice)
  \/ Return

\* the model registry
Spec == Init /\ [][Next]_vars

\* a handler constructed with some limit and with or without ui_callback,
\* about to receive a stream
InitBuffer ==
  /\ LMSTUDIO_BASE_URL = PyNone
  /\ server = [kind |-> "unreachable"]
  /\ result = NoCall
  /\ HandlerConstructed
  /\ buffer_limit \in Limits
  /\ ui_callback \in BOOLEAN
  /\ stream \in Streams

NextBuffer == on_llm_new_token \/ on_llm_end

\* the token buffer
SpecBuffer == InitBuffer /\ [][NextBuffer]_vars

-----------------------------------------------------------------------------
(* Vocabulary of the properties *)

\* the registry call that has just returned or raised
Called(name) == result.call = name

\* the normalized form of a str, computed from the text of the properties:
\* blanks trimmed at both ends, letters lowercased
NormalForm(s) == Lower(Strip(s))

\* the normalized str is a key of the static catalog
IsStaticKey(s) == \E i \in 1..Len(llm_config_keys) : llm_config_keys[i].s = NormalForm(s)

\* the identifiers the discovery request yields now: the truthy ids of the
\* data array when the server serves one made of objects and a base URL
\* remains after its trailing slashes are removed, none otherwise
Discovered ==
  IF /\ Truthy(LMSTUDIO_BASE_URL)
     /\ RStrip(LMSTUDIO_BASE_URL.s, {"/"}) # <<>>
     /\ Serving
     /\ \A i \in 1..Len(Loaded) : Loaded[i].py = "dict"
  THEN SelectSeq([i \in 1..Len(Loaded) |-> DictGet(Loaded[i], "id", PyNone)], Truthy)
  ELSE <<>>

\* the response is one the discovery contract degrades to the empty list
Degraded ==
  \/ server \in Faults
  \/ Serving /\ \E i \in 1..Len(Loaded) : Loaded[i].py # "dict"

\* index i holds a discovered str whose normalized form is that of s
Matches(i, s) ==
  /\ Discovered[i].py = "str"
  /\ NormalForm(Discovered[i].s) = NormalForm(s)

-----------------------------------------------------------------------------
(* C1 *)

\* C1: fetch_lmstudio_models never raises, and returns the empty list for
\* every degraded outcome of the request (transport error, error status, body
\* that is not JSON, top level that is no object, data that is no array,
\* entries that are no objects) and when no base URL is configured.
C1_FetchNeverRaises ==
  Called("fetch_lmstudio_models") =>
    /\ result.out.raised = ""
    /\ (Degraded \/ ~Truthy(LMSTUDIO_BASE_URL)) => result.out.val = PyList(<<>>)

-----------------------------------------------------------------------------
(* C3 *)

\* C3: get_model_choices never fails: whatever the discovery endpoint does or
\* returns it returns a list, and with discovery unreachable or unconfigured
\* the list is exactly the static keys in declaration order.
C3_ChoicesNeverFail ==
  Called("get_model_choices") =>
    /\ result.out.raised = ""
    /\ result.out.val.py = "list"
    /\ (server.kind = "unreachable" \/ ~Truthy(LMSTUDIO_BASE_URL))
         => result.out.val = PyList(llm_config_keys)

-----------------------------------------------------------------------------
(* C5 *)

\* C5: when the normalized choice is no static key and discovery returns an
\* identifier with the same normalized form, resolve_model_config returns the
\* ChatOpenAI descriptor of the first such identifier, in its original case,
\* with the configured base URL and the api_key "lm-studio".
C5_ResolvesDiscovered ==
  (/\ Called("resolve_model_config")
   /\ ~IsStaticKey(result.arg.s)
   /\ \E i \in 1..Len(Discovered) : Matches(i, result.arg.s))
  => LET first == CHOOSE i \in 1..Len(Discovered) :
                    /\ Matches(i, result.arg.s)
                    /\ \A j \in 1..(i - 1) : ~Matches(j, result.arg.s)
     IN  /\ result.out.raised = ""
         /\ result.out.val =
              [class |-> "ChatOpenAI",
               constructor_params |-> [model |-> Discovered[first],
                                       base_url |-> LMSTUDIO_BASE_URL,
                                       api_key |-> PyStr(<<"l", "m", "-", "s", "t", "u", "d", "i", "o">>)]]

-----------------------------------------------------------------------------
(* C6 *)

\* C6: when the normalized choice is neither a static key nor the normalized
\* form of a discovered identifier, resolve_model_config returns None and
\* raises nothing, for every outcome of the discovery request.
C6_NotFoundIsNone ==
  (/\ Called("resolve_model_config")
   /\ ~IsStaticKey(result.arg.s)
   /\ ~\E i \in 1..Len(Discovered) : Matches(i, result.arg.s))
  => /\ result.out.raised = ""
     /\ result.out.val = PyNone

-----------------------------------------------------------------------------
(* C2 *)

\* the entries of the returned list after the static keys
DynamicTail == SubSeq(result.out.val.items, Len(llm_config_keys) + 1, Len(result.out.val.items))

\* the returned list starts with the static keys in declaration order, and
\* no entry after them has the normalized form of a static key
StaticKeysFirst ==
  /\ Len(result.out.val.items) >= Len(llm_config_keys)
  /\ SubSeq(result.out.val.items, 1, Len(llm_config_keys)) = llm_config_keys
  /\ \A i \in 1..Len(DynamicTail) : ~IsStaticKey(DynamicTail[i].s)

\* the places of the discovered names whose normalized form is no static key
NonStaticPlaces ==
  {i \in 1..Len(Discovered) : Discovered[i].py = "str" /\ ~IsStaticKey(Discovered[i].s)}

FirstPlaces ==
  {i \in NonStaticPlaces :
     \A j \in NonStaticPlaces : j < i => NormalForm(Discovered[j].s) # NormalForm(Discovered[i].s)}

-----------------------------------------------------------------------------
(* C4 *)

\* the three spellings of a static key: as it is, upper case, between blanks
Spellings(k) == {k, PyStr(Upper(k.s)), PyStr(<<" ">> \o k.s \o <<" ">>)}

\* C4: for every static key k, resolve_model_config of k, of UPPER(k) and of
\* " k " returns the static entry of k, whatever the discovery response is.
C4_StaticWins ==
  Called("resolve_model_config") =>
    \A i \in 1..Len(llm_config_keys) :
      result.arg \in Spellings(llm_config_keys[i]) =>
        /\ result.out.raised = ""
        /\ result.out.val = llm_config_values[i]

\* C4 witness: the server lists "GPT-4.1", and resolve_model_config("GPT-4.1")
\* has returned the static entry of gpt-4.1.
C4_Witness ==
  /\ Called("resolve_model_config")
  /\ result.arg = PyStr(<<"G", "P", "T", "-", "4", ".", "1">>)
  /\ \E i \in 1..Len(Discovered) : Discovered[i] = PyStr(<<"G", "P", "T", "-", "4", ".", "1">>)
  /\ result.out.raised = ""
  /\ result.out.val = llm_config_values[1]

-----------------------------------------------------------------------------
(* C9 *)

\* a fetch_lmstudio_models that returns gives the identifiers of the response
\* it has just received
FreshResult ==
  (Called("fetch_lmstudio_models") /\ result.out.raised = "")
    => result.out.val = PyList(Discovered)

\* the call made is a resolve_model_config whose static lookup hit
StaticHit == Called("resolve_model_config") /\ IsStaticKey(result.arg.s)

\* C9, as claimed: a call issues exactly one GET when a base URL is configured
\* and none when it is absent or empty, resolve_model_config issues none when
\* the static lookup hits, and the result is that of the response received.
C9_OneGetWhenConfigured ==
  result # NoCall =>
    /\ result.out.gets = IF StaticHit THEN 0
                         ELSE IF Truthy(LMSTUDIO_BASE_URL) THEN 1 ELSE 0
    /\ FreshResult

\* C9, amended: a call issues exactly one GET when the configured base URL is
\* non-empty once its trailing slashes are removed, and none otherwise (no
\* base URL, an empty one, one made of slashes only); resolve_model_config
\* issues none when the static lookup hits; the result is that of the
\* response received.
C9_OneGetWhenUrlRemains ==
  result # NoCall =>
    /\ result.out.gets =
         IF StaticHit THEN 0
         ELSE IF Truthy(LMSTUDIO_BASE_URL) /\ RStrip(LMSTUDIO_BASE_URL.s, {"/"}) # <<>> THEN 1
         ELSE 0
    /\ FreshResult

\* C9 witness: fetch_lmstudio_models has issued one GET and returned the two
\* identifiers the server lists now.
C9_Witness ==
  /\ Called("fetch_lmstudio_models")
  /\ result.out.gets = 1
  /\ result.out.raised = ""
  /\ Serving
  /\ Len(Loaded) = 2
  /\ Len(result.out.val.items) = 2

-----------------------------------------------------------------------------
(* C10 *)

\* discovery gives a list of str identifiers
StringDiscovery ==
  /\ fetch_lmstudio_models.raised = ""
  /\ \A i \in 1..Len(fetch_lmstudio_models.val.items) :
       fetch_lmstudio_models.val.items[i].py = "str"

\* C10: for a discovery response that is a list of str identifiers, the list
\* get_model_choices returns holds no two entries of the same normalized form,
\* and resolve_model_config of each entry n returns a descriptor: the static
\* one when n is a static key, otherwise the synthesized one whose model is n.
C10_ListedNamesResolve ==
  (Called("get_model_choices") /\ StringDiscovery) =>
    /\ result.out.raised = ""
    /\ LET names == result.out.val.items
       IN  /\ \A i, j \in 1..Len(names) :
                i # j => NormalForm(names[i].s) # NormalForm(names[j].s)
           /\ \A i \in 1..Len(names) :
                LET r == resolve_model_config(names[i])
                IN  /\ r.raised = ""
                    /\ r.val = IF i <= Len(llm_config_keys) THEN llm_config_values[i]
                               ELSE [class |-> "ChatOpenAI",
                                     constructor_params |->
                                       [model |-> names[i],
                                        base_url |-> LMSTUDIO_BASE_URL,
                                        api_key |-> PyStr(<<"l", "m", "-", "s", "t", "u", "d", "i", "o">>)]]

\* C10 witness: the list returned ends with the two local models "bar", "Zed".
C10_Witness ==
  /\ Called("get_model_choices")
  /\ result.out.raised = ""
  /\ result.out.val.items = llm_config_keys \o <<PyStr(<<"b", "a", "r">>), PyStr(<<"Z", "e", "d">>)>>

-----------------------------------------------------------------------------
(* C7 *)

\* the str of n characters "a"
Repeated(n) == [i \in 1..n |-> "a"]

\* the tokens received so far
Received == SubSeq(stream, 1, pos)

\* one on_llm_new_token as C7 states it: the token is appended, and the
\* accumulator is flushed to both sinks and cleared if and only if it then
\* contains a newline or has reached the limit
ClaimedStep ==
  LET acc == buffer \o stream[pos']
  IN  IF HasNewline(acc) \/ Len(acc) >= buffer_limit
      THEN /\ primary' = Append(primary, acc)
           /\ secondary' = IF ui_callback THEN Append(secondary, acc) ELSE secondary
           /\ buffer' = <<>>
      ELSE /\ primary' = primary
           /\ secondary' = secondary
           /\ buffer' = acc

\* the two examples of C7: "a", "b", "\n" under a limit above 2 give one
\* flush of "ab\n" at the third token; 61 one-character tokens under limit 60
\* give one flush of the first 60 at the 60th token
ClaimedExamples ==
  ~ended =>
    /\ (stream = <<<<"a">>, <<"b">>, <<"\n">> >> /\ buffer_limit > 2) =>
         /\ primary = IF pos = 3 THEN << <<"a", "b", "\n">> >> ELSE <<>>
         /\ secondary = IF ui_callback THEN primary ELSE <<>>
    /\ (stream = LongStream /\ buffer_limit = DefaultLimit) =>
         /\ primary = IF pos >= DefaultLimit THEN <<Repeated(DefaultLimit)>> ELSE <<>>
         /\ secondary = IF ui_callback THEN primary ELSE <<>>

\* C7: after any sequence of on_llm_new_token calls with a limit of at least
\* 1, each call has appended its token and flushed if and only if the
\* accumulator then contained a newline or had reached the limit; each flush
\* wrote the whole accumulator once to print and, when a ui_callback was
\* supplied, once to it, and cleared it.  So "a", "b", "\n" give one flush of
\* "ab\n", and 61 one-character tokens with limit 60 flush at the 60th.
C7_FlushOnNewlineOrLimit ==
  /\ [][pos' = pos + 1 => ClaimedStep]_vars
  /\ []ClaimedExamples

\* C7 witness: with limit 60 and a ui_callback, the 61st one-character token
\* has been received, and the first 60 were flushed once to both sinks.
C7_Witness ==
  /\ ~ended
  /\ ui_callback
  /\ buffer_limit = DefaultLimit
  /\ pos = DefaultLimit + 1
  /\ primary = <<Repeated(DefaultLimit)>>
  /\ secondary = <<Repeated(DefaultLimit)>>
  /\ buffer = <<"a">>

-----------------------------------------------------------------------------
(* C8 *)

\* C8: everything written is flushed: what print received, and what the
\* ui_callback received when one was supplied, followed by the accumulator, is
\* the concatenation of the tokens in arrival order; after on_llm_end the
\* accumulator is empty, so the sinks hold all the tokens; and on_llm_end
\* writes nothing when the accumulator is empty (no sink receives an empty str).
C8_EverythingFlushed ==
  /\ Concat(primary) \o buffer = Concat(Received)
  /\ ui_callback => Concat(secondary) \o buffer = Concat(Received)
  /\ ~ui_callback => secondary = <<>>
  /\ ended => /\ buffer = <<>>
              /\ Concat(primary) = Concat(stream)
              /\ ui_callback => Concat(secondary) = Concat(stream)
  /\ \A i \in 1..Len(primary) : primary[i] # <<>>
  /\ \A i \in 1..Len(secondary) : secondary[i] # <<>>

\* C8 witness: after "a", "b\na", "b" with limit 3 and a ui_callback,
\* on_llm_end has flushed the remaining "ab" to both sinks.
C8_Witness ==
  /\ ended
  /\ ui_callback
  /\ buffer_limit = 3
  /\ stream = <<<<"a">>, <<"b", "\n", "a">>, <<"a", "b">>>>
  /\ primary = << <<"a", "b", "\n", "a">>, <<"a", "b">> >>
  /\ secondary = primary
  /\ buffer = <<>>

====
